---- MODULE Spec2Model ----
(***************************************************************************)
(* A model of compressor.py: the GBA BIOS compressors (RLE, LZ77, Huffman  *)
(* with 8-bit or 4-bit symbols) and the dispatch of main().                *)
(*                                                                         *)
(* Cursors and indices are 0-based as in the source; TLA+ sequences are    *)
(* 1-based, so inb[k] of the source reads s[k + 1] here.                   *)
(***************************************************************************)
EXTENDS Integers, Sequences, FiniteSets, TLC

VARIABLES mode,      \* the compression method selected on the command line
          vram,      \* BIOS_LZ77.vram
          src,       \* main's inb: the bytes read, padded to a multiple of 4
          inb,       \* self.inb of the encoder object (nibbles for huffman4)
          pc,        \* "compress" | "compressed" | "done" | "failed"
          i,         \* the cursor of the compress loop
          buffer,    \* BIOS_RLE.buffer
          blocks,    \* self.blocks
          nodes,     \* the Huffman nodes, by creation order (leaves first)
          root,      \* self.root, an index into nodes (0: none yet)
          bits,      \* self.bits
          f,         \* the bytes written to the output file so far
          bitstart   \* how many bytes f held when the first bitstream word was due

vars == <<mode, vram, src, inb, pc, i, buffer, blocks, nodes, root, bits, f, bitstart>>

----------------------------------------------------------------------------
(* Bounds of the model.                                                    *)

\* small inputs: every sequence over SmallAlphabet of length 1..MaxLen
MaxLen == 4
\* how far around a limit of the format (128, 130, 4096) the long inputs go
Slack == 1
\* the longest sequence put before or after a long segment
MaxEdge == 1
\* the length of the LZ77 inputs that are enumerated in full
LZLen == 6

----------------------------------------------------------------------------
(* Constants of the program.                                               *)

RLE_SCAN == 129
RLE_THRESHOLD == 3
RLE_ASSERT_MIN == 3
RLE_ASSERT_MAX == 130
RAW_FLUSH_AT == 128
RAW_ASSERT_MAX == 128
PAD_TO == 4
LZ_WINDOW == 4096
LZ_MAX_LEN == 18
LZ_BEST_INIT == 2
LZ_GROUP == 8
HUFF_OFFS_LIMIT == 64
WORD_BITS == 32

----------------------------------------------------------------------------
(* Helpers.                                                                *)

Min(S) == CHOOSE x \in S : \A y \in S : x <= y
Max(S) == CHOOSE x \in S : \A y \in S : x >= y

RECURSIVE BitOr(_, _)
BitOr(a, b) ==
    IF a = 0 THEN b
    ELSE IF b = 0 THEN a
    ELSE (IF a % 2 = 1 \/ b % 2 = 1 THEN 1 ELSE 0) + 2 * BitOr(a \div 2, b \div 2)

RECURSIVE BitAnd(_, _)
BitAnd(a, b) ==
    IF a = 0 \/ b = 0 THEN 0
    ELSE (IF a % 2 = 1 /\ b % 2 = 1 THEN 1 ELSE 0) + 2 * BitAnd(a \div 2, b \div 2)

RECURSIVE Pow2(_)
Pow2(n) == IF n = 0 THEN 1 ELSE 2 * Pow2(n - 1)

ShiftLeft(a, n) == a * Pow2(n)
ShiftRight(a, n) == a \div Pow2(n)

\* int.to_bytes(n, "little"); the source's values stay below 256^n for inputs
\* shorter than 2^24 bytes (above, to_bytes raises OverflowError)
ToBytes(x, n) == [k \in 1..n |-> (x \div Pow2(8 * (k - 1))) % 256]

\* the concatenation of ss[a..b], halving the range
RECURSIVE FlattenRange(_, _, _)
FlattenRange(ss, a, b) ==
    IF a > b THEN <<>>
    ELSE IF a = b THEN ss[a]
    ELSE LET m == (a + b) \div 2
         IN FlattenRange(ss, a, m) \o FlattenRange(ss, m + 1, b)

Flatten(ss) == FlattenRange(ss, 1, Len(ss))

\* every sequence over S of length exactly n / at most n
RECURSIVE SeqsOfLen(_, _)
SeqsOfLen(S, n) ==
    IF n = 0 THEN {<<>>}
    ELSE {Append(s, x) : s \in SeqsOfLen(S, n - 1), x \in S}

SeqsUpTo(S, n) == UNION {SeqsOfLen(S, k) : k \in 0..n}

\* main: "input length is not a multiple of 4, padding with zeroes"
Pad(raw) ==
    IF Len(raw) % PAD_TO # 0
    THEN raw \o [k \in 1..(PAD_TO - (Len(raw) % PAD_TO)) |-> 0]
    ELSE raw

----------------------------------------------------------------------------
(* The inputs of the model.                                                *)

SmallAlphabet == {0, 1}
SmallInputs == SeqsUpTo(SmallAlphabet, MaxLen) \ {<<>>}

\* n bytes without two equal neighbours, and n copies of one byte
Lit(n) == [k \in 1..n |-> 2 + (k % 2)]
Run(b, n) == [k \in 1..n |-> b]

RLELitLens == {0} \cup ((RAW_FLUSH_AT - Slack)..(RAW_FLUSH_AT + Slack)) \cup {2 * RAW_FLUSH_AT}
RLERunLens == {0, RLE_THRESHOLD}
              \cup ((RLE_ASSERT_MAX - Slack)..(RLE_ASSERT_MAX + Slack))
              \cup {2 * RLE_ASSERT_MAX + Slack}

RLELongInputs ==
    {Lit(n) \o Run(b, m) \o e :
        n \in RLELitLens, b \in SmallAlphabet, m \in RLERunLens,
        e \in SeqsUpTo(SmallAlphabet, MaxEdge)} \ {<<>>}

RLEInputs == SmallInputs \cup RLELongInputs

\* LZ77: every sequence over SmallAlphabet of length LZLen, and two copies of
\* 1 2 3 with so many zeroes between them that the second is just inside, at
\* the edge of, or just outside the window of the first, and a 4 to end the match
LZMidInputs == SeqsOfLen(SmallAlphabet, LZLen)

LZHead == <<1, 2, 3>>
LZGaps == (LZ_WINDOW - Len(LZHead) - Slack)..(LZ_WINDOW - Len(LZHead) + Slack)
LZWindowInputs == {LZHead \o Run(0, n) \o LZHead \o <<4>> : n \in LZGaps}

LZInputs == LZMidInputs

\* Huffman: every sequence over HuffAlphabet of length 1..MaxLen (bytes whose
\* nibbles are 0 0, 0 1 and 2 3), and the bytes 0, 1, ..., n - 1 once each
HuffAlphabet == {0, 16, 50}
HuffSmallInputs == SeqsUpTo(HuffAlphabet, MaxLen) \ {<<>>}

Ramp(n) == [k \in 1..n |-> k - 1]
HuffRampLens == {16, 128, 256}
HuffRampInputs == {Ramp(n) : n \in HuffRampLens}

HuffInputs == HuffSmallInputs \cup HuffRampInputs

----------------------------------------------------------------------------
(* BIOS_RLE                                                                *)

RLEBlock(byte, length) == [type |-> "RLEBlock", byte |-> byte, length |-> length]
RLERawBlock(data) == [type |-> "RawBlock", data |-> data]

\* the constructors' assertions
RLEBlockAssert(length) == RLE_ASSERT_MIN <= length /\ length <= RLE_ASSERT_MAX
RLERawBlockAssert(data) == 1 <= Len(data) /\ Len(data) <= RAW_ASSERT_MAX

\* the inner loop of compress, for j in range(a, b): the first j at which the
\* loop breaks (the input ends or the byte differs), b when it runs to its end.
\* The range is halved instead of stepped through, which finds the same j.
RECURSIVE RLEFirstBreak(_, _, _, _)
RLEFirstBreak(s, i0, a, b) ==
    IF a >= b THEN b
    ELSE IF a + 1 = b
         THEN IF i0 + a + 1 >= Len(s) THEN a
              ELSE IF s[i0 + a + 2] = s[i0 + 1] THEN b ELSE a
         ELSE LET m == (a + b) \div 2
                  l == RLEFirstBreak(s, i0, a, m)
              IN IF l < m THEN l ELSE RLEFirstBreak(s, i0, m, b)

\* a variant of RLEMatch whose inner loop runs one pass more
RLEMatchLong(s, i0) == 1 + RLEFirstBreak(s, i0, 0, RLE_SCAN + 1)

\* match after the inner loop: 1, plus one for every pass that did not break
RLEMatch(s, i0) == 1 + RLEFirstBreak(s, i0, 0, RLE_SCAN)

\* a variant of FlushBuffer that does not empty the buffer
FlushBufferKeep(bl, buf) ==
    IF Len(buf) > 0
    THEN [blocks |-> Append(bl, RLERawBlock(buf)), buffer |-> buf, ok |-> RLERawBlockAssert(buf)]
    ELSE [blocks |-> bl, buffer |-> buf, ok |-> TRUE]

\* flush_buffer: ok is FALSE when the raw block's constructor assertion fails
FlushBuffer(bl, buf) ==
    IF Len(buf) > 0
    THEN IF RLERawBlockAssert(buf)
         THEN [blocks |-> Append(bl, RLERawBlock(buf)), buffer |-> <<>>, ok |-> TRUE]
         ELSE [blocks |-> bl, buffer |-> buf, ok |-> FALSE]
    ELSE [blocks |-> bl, buffer |-> buf, ok |-> TRUE]

\* one pass of the while loop of BIOS_RLE.compress
RLEStep ==
    /\ mode = "rle" /\ pc = "compress" /\ i < Len(inb)
    /\ LET cur == inb[i + 1]
           match == RLEMatch(inb, i)
       IN IF match >= RLE_THRESHOLD
          THEN LET fl == FlushBuffer(blocks, buffer)
               IN IF fl.ok /\ RLEBlockAssert(match)
                  THEN /\ blocks' = Append(fl.blocks, RLEBlock(cur, match))
                       /\ buffer' = fl.buffer
                       /\ i' = i + match
                       /\ pc' = pc
                  ELSE /\ blocks' = fl.blocks
                       /\ buffer' = fl.buffer
                       /\ i' = i
                       /\ pc' = "failed"
          ELSE LET buf == Append(buffer, cur)
                   fl == IF Len(buf) = RAW_FLUSH_AT
                         THEN FlushBuffer(blocks, buf)
                         ELSE [blocks |-> blocks, buffer |-> buf, ok |-> TRUE]
               IN /\ blocks' = fl.blocks
                  /\ buffer' = fl.buffer
                  /\ i' = IF fl.ok THEN i + 1 ELSE i
                  /\ pc' = IF fl.ok THEN pc ELSE "failed"
    /\ UNCHANGED <<mode, vram, src, inb, nodes, root, bits, f, bitstart>>

\* the end of BIOS_RLE.compress: the loop is over, the last flush_buffer
RLEFinish ==
    /\ mode = "rle" /\ pc = "compress" /\ i >= Len(inb)
    /\ LET fl == FlushBuffer(blocks, buffer)
       IN /\ blocks' = fl.blocks
          /\ buffer' = fl.buffer
          /\ pc' = IF fl.ok THEN "compressed" ELSE "failed"
    /\ UNCHANGED <<mode, vram, src, inb, i, nodes, root, bits, f, bitstart>>

\* BIOS_RLE_RLEBlock.output and BIOS_RLE_RawBlock.output
RLEBlockOutput(b) ==
    IF b.type = "RLEBlock"
    THEN ToBytes(BitOr(128, b.length - 3), 1) \o ToBytes(b.byte, 1)
    ELSE ToBytes(Len(b.data) - 1, 1) \o b.data

RLEHeader(inl) == BitOr(ShiftLeft(3, 4), ShiftLeft(inl, 8))

\* BIOS_RLE.output
RLEOutput ==
    /\ mode = "rle" /\ pc = "compressed"
    /\ f' = f \o ToBytes(RLEHeader(Len(inb)), 4)
              \o Flatten([k \in 1..Len(blocks) |-> RLEBlockOutput(blocks[k])])
    /\ pc' = "done"
    /\ UNCHANGED <<mode, vram, src, inb, i, buffer, blocks, nodes, root, bits, bitstart>>

----------------------------------------------------------------------------
(* BIOS_LZ77                                                               *)

LZRawBlock(data) == [type |-> "RawBlock", data |-> data]
LZBackReferenceBlock(disp, length) ==
    [type |-> "BackReferenceBlock", disp |-> disp, length |-> length]

\* a variant of LZSourcePos that compares one position further on
LZSourcePosOffByOne(i0, disp, j) == i0 - disp + j

\* the position compared with i + j
LZSourcePos(i0, disp, j) == i0 - disp - 1 + j

\* the loop for j in range(18), from pass j on with match_len = j so far:
\* match_len when the loop breaks or ends
RECURSIVE LZMatchFrom(_, _, _, _)
LZMatchFrom(s, i0, disp, j) ==
    IF j >= LZ_MAX_LEN THEN j
    ELSE IF ~(0 <= LZSourcePos(i0, disp, j) /\ LZSourcePos(i0, disp, j) < Len(s)) THEN j
    ELSE IF i0 + j >= Len(s) THEN j
    ELSE IF s[LZSourcePos(i0, disp, j) + 1] = s[i0 + j + 1]
         THEN LZMatchFrom(s, i0, disp, j + 1)
         ELSE j

LZMatchLen(s, i0, disp) == LZMatchFrom(s, i0, disp, 0)

\* a variant of LZBetter that also takes a match of equal length
LZBetterOrEqual(match_len, best_len) == match_len >= best_len

\* if match_len > best_match[0]
LZBetter(match_len, best_len) == match_len > best_len

\* one pass of the loop over disp; done: the break at match_len == 18
LZScanStep(s, i0, best, disp) ==
    LET match_len == LZMatchLen(s, i0, disp)
    IN IF LZBetter(match_len, best.length)
       THEN [length |-> match_len, disp |-> disp, done |-> match_len = LZ_MAX_LEN]
       ELSE best

\* the loop for disp in range(a, b), entered with best_match = best. The range
\* is halved instead of stepped through: the passes run in the same order.
RECURSIVE LZScan(_, _, _, _, _)
LZScan(s, i0, best, a, b) ==
    IF best.done \/ a >= b THEN best
    ELSE IF a + 1 = b THEN LZScanStep(s, i0, best, a)
    ELSE LET m == (a + b) \div 2
         IN LZScan(s, i0, LZScan(s, i0, best, a, m), m, b)

\* a variant of LZFirstDisp that starts at 0 whatever vram is
LZFirstDispZero(v) == 0

\* range(1 if self.vram else 0, 4096)
LZFirstDisp(v) == IF v THEN 1 ELSE 0

\* best_match when the search at cursor i0 is over
LZBestMatch(s, i0, v) ==
    LZScan(s, i0, [length |-> LZ_BEST_INIT, disp |-> -1, done |-> FALSE],
           LZFirstDisp(v), LZ_WINDOW)

\* one pass of the while loop of BIOS_LZ77.compress; compress returns when the
\* cursor has reached the end
LZStep ==
    /\ mode = "lz77" /\ pc = "compress" /\ i < Len(inb)
    /\ \E best_match \in {LZBestMatch(inb, i, vram)} :
          IF best_match.disp = -1
          THEN /\ blocks' = Append(blocks, LZRawBlock(inb[i + 1]))
               /\ i' = i + 1
          ELSE /\ blocks' = Append(blocks,
                                   LZBackReferenceBlock(best_match.disp, best_match.length))
               /\ i' = i + best_match.length
    /\ pc' = IF i' < Len(inb) THEN "compress" ELSE "compressed"
    /\ UNCHANGED <<mode, vram, src, inb, buffer, nodes, root, bits, f, bitstart>>

\* the assertions of BIOS_LZ77_BackReferenceBlock.output
LZBlockAssert(b) ==
    b.type = "BackReferenceBlock" =>
        /\ 0 <= b.disp /\ b.disp < 4096
        /\ 3 <= b.length /\ b.length <= 18

\* BIOS_LZ77_RawBlock.output and BIOS_LZ77_BackReferenceBlock.output
LZBlockOutput(b) ==
    IF b.type = "BackReferenceBlock"
    THEN ToBytes(BitOr(ShiftLeft(b.length - 3, 4), ShiftRight(b.disp, 8)), 1)
         \o ToBytes(BitAnd(b.disp, 255), 1)
    ELSE ToBytes(b.data, 1)

\* the flag byte of the group of blocks that starts at bl[k]: MSB first, bit = 1
\* for compressed
RECURSIVE LZFlagFrom(_, _, _)
LZFlagFrom(bl, k, j) ==
    IF j >= LZ_GROUP \/ k + j > Len(bl) THEN 0
    ELSE BitOr(IF bl[k + j].type = "BackReferenceBlock" THEN ShiftLeft(1, 7 - j) ELSE 0,
               LZFlagFrom(bl, k, j + 1))

LZFlag(bl, k) == LZFlagFrom(bl, k, 0)

\* what one pass of the loop of output writes for bl[k]: the group's flag byte
\* first when k opens a group, then the block, unless its assertion fails
LZWrites(bl, k) ==
    (IF (k - 1) % LZ_GROUP = 0 THEN ToBytes(LZFlag(bl, k), 1) ELSE <<>>)
    \o (IF LZBlockAssert(bl[k]) THEN LZBlockOutput(bl[k]) ELSE <<>>)

LZHeader(inl) == BitOr(ShiftLeft(1, 4), ShiftLeft(inl, 8))

\* BIOS_LZ77.output: the header, then the blocks up to the first one whose
\* assertion fails
LZOutput ==
    /\ mode = "lz77" /\ pc = "compressed"
    /\ LET bad == {k \in 1..Len(blocks) : ~LZBlockAssert(blocks[k])}
           last == IF bad = {} THEN Len(blocks) ELSE Min(bad)
       IN /\ f' = f \o ToBytes(LZHeader(Len(inb)), 4)
                    \o Flatten([k \in 1..last |-> LZWrites(blocks, k)])
          /\ pc' = IF bad = {} THEN "done" ELSE "failed"
    /\ UNCHANGED <<mode, vram, src, inb, i, buffer, blocks, nodes, root, bits, bitstart>>

----------------------------------------------------------------------------
(* PriorityQueue, LeafNode, InnerNode, construct_tree                      *)

\* A node is a record; child0 and child1 are indices into the list of all
\* nodes (the identity of the node objects), 0 for a leaf.
LeafNode(symbol, weight) ==
    [leaf |-> TRUE, symbol |-> symbol, weight |-> weight, child0 |-> 0, child1 |-> 0]
InnerNode(ns, child0, child1) ==
    [leaf |-> FALSE, symbol |-> -1, weight |-> ns[child0].weight + ns[child1].weight,
     child0 |-> child0, child1 |-> child1]

\* collections.Counter(inb).items(): (symbol, count) in the order in which the
\* symbols first occur. One symbol more counted:
CounterAdd(acc, x) ==
    IF \E k \in 1..Len(acc) : acc[k][1] = x
    THEN [k \in 1..Len(acc) |-> IF acc[k][1] = x THEN <<x, acc[k][2] + 1>> ELSE acc[k]]
    ELSE Append(acc, <<x, 1>>)

\* (Len(acc) < 0 is never true; it has the argument evaluated here, which
\* keeps the pending evaluations as shallow as the halving)
RECURSIVE CounterRange(_, _, _, _)
CounterRange(acc, s, a, b) ==
    IF Len(acc) < 0 \/ a > b THEN acc
    ELSE IF a = b THEN CounterAdd(acc, s[a])
    ELSE CounterRange(CounterRange(acc, s, a, (a + b) \div 2), s, (a + b) \div 2 + 1, b)

Counter(s) == CounterRange(<<>>, s, 1, Len(s))

\* PriorityQueue.put: append t = (weight, node) and sort by weight. The sort is
\* stable and q was sorted, so t lands behind every entry of weight <= its own.
PQPut(q, t) ==
    LET k == Cardinality({j \in 1..Len(q) : q[j][1] <= t[1]})
    IN SubSeq(q, 1, k) \o <<t>> \o SubSeq(q, k + 1, Len(q))

\* for node in leaves: prio.put((node.weight, node)), for the leaves a..b
RECURSIVE PQPutLeaves(_, _, _, _)
PQPutLeaves(q, ns, a, b) ==
    IF Len(q) < 0 \/ a > b THEN q
    ELSE IF a = b THEN PQPut(q, <<ns[a].weight, a>>)
    ELSE PQPutLeaves(PQPutLeaves(q, ns, a, (a + b) \div 2), ns, (a + b) \div 2 + 1, b)

\* one pass of "while prio.qsize() > 1": merge the two nodes of lowest weight
MergeStep(st) ==
    IF Len(st.q) <= 1 THEN st
    ELSE LET join == InnerNode(st.nodes, st.q[1][2], st.q[2][2])
         IN [nodes |-> Append(st.nodes, join),
             q |-> PQPut(SubSeq(st.q, 3, Len(st.q)), <<join.weight, Len(st.nodes) + 1>>)]

\* n passes of that loop
RECURSIVE MergeLoop(_, _)
MergeLoop(st, n) ==
    IF Len(st.q) <= 1 \/ n <= 0 THEN st
    ELSE IF n = 1 THEN MergeStep(st)
    ELSE MergeLoop(MergeLoop(st, n \div 2), n - n \div 2)

\* set_encoding: the (symbol, encoding) pairs of the leaves below node n
RECURSIVE set_encoding(_, _, _)
set_encoding(ns, n, prefix) ==
    IF ~ns[n].leaf
    THEN set_encoding(ns, ns[n].child0, Append(prefix, "0"))
         \cup set_encoding(ns, ns[n].child1, Append(prefix, "1"))
    ELSE {<<ns[n].symbol, prefix>>}

\* construct_tree(inp): the nodes (the leaves first, in the order of inp), the
\* root and convdict
construct_tree(inp) ==
    LET leaves == [k \in 1..Len(inp) |-> LeafNode(inp[k][1], inp[k][2])]
        prio == PQPutLeaves(<<>>, leaves, 1, Len(leaves))
        st == MergeLoop([nodes |-> leaves, q |-> prio], Len(leaves) - 1)
        rt == st.q[1][2]
        enc == set_encoding(st.nodes, rt, <<>>)
    IN [nodes |-> st.nodes,
        root |-> rt,
        convdict |-> [x \in {e[1] : e \in enc} |-> (CHOOSE e \in enc : e[1] = x)[2]]]

----------------------------------------------------------------------------
(* BIOS_Huffman                                                            *)

symbolsize == IF mode = "huffman4" THEN 4 ELSE 8

\* len(self.leaves)
LeafCount(ns) == Cardinality({k \in 1..Len(ns) : ns[k].leaf})

\* BIOS_Huffman.compress
HuffCompress ==
    /\ mode \in {"huffman", "huffman4"} /\ pc = "compress"
    /\ \E t \in {construct_tree(Counter(inb))} :
          /\ nodes' = t.nodes
          /\ root' = t.root
          /\ bits' = Flatten([k \in 1..Len(inb) |-> t.convdict[inb[k]]])
    /\ pc' = "compressed"
    /\ UNCHANGED <<mode, vram, src, inb, i, buffer, blocks, f, bitstart>>

\* one pass of "while len(todo) > 0" of the breadth-first search
BfsStep(ns, st) ==
    IF st.todo = <<>> THEN st
    ELSE LET pop == Head(st.todo)
         IN IF ~ns[pop].leaf
            THEN [todo |-> Tail(st.todo) \o <<ns[pop].child0, ns[pop].child1>>,
                  fully |-> st.fully \o <<ns[pop].child0, ns[pop].child1>>]
            ELSE [todo |-> Tail(st.todo), fully |-> st.fully]

RECURSIVE BfsLoop(_, _, _)
BfsLoop(ns, st, n) ==
    IF st.todo = <<>> \/ n <= 0 THEN st
    ELSE IF n = 1 THEN BfsStep(ns, st)
    ELSE BfsLoop(ns, BfsLoop(ns, st, n \div 2), n - n \div 2)

\* fully: all nodes in breadth-first order (every node is popped once)
Fully(ns, rt) == BfsLoop(ns, [todo |-> <<rt>>, fully |-> <<rt>>], Len(ns)).fully

\* fully.index(n), 0-based
IndexIn(fully, n) == (CHOOSE k \in 1..Len(fully) : fully[k] = n) - 1

\* offs of the inner node at index i0 of fully, before the flags are set
Offs(fully, ns, i0) ==
    LET child1pos == IndexIn(fully, ns[fully[i0 + 1]].child1)
    IN (child1pos - ((i0 + 1) - ((i0 + 1) % 2)) - 2) \div 2

\* the two assertions of the loop over fully, for the node at index i0
AdjacentAssert(fully, ns, i0) ==
    IndexIn(fully, ns[fully[i0 + 1]].child0) + 1 = IndexIn(fully, ns[fully[i0 + 1]].child1)
OffsAssert(fully, ns, i0) ==
    0 <= Offs(fully, ns, i0) /\ Offs(fully, ns, i0) < HUFF_OFFS_LIMIT

NodeAsserts(fully, ns, i0) ==
    ns[fully[i0 + 1]].leaf \/ (AdjacentAssert(fully, ns, i0) /\ OffsAssert(fully, ns, i0))

\* the byte written for the node at index i0 of fully
NodeByte(fully, ns, i0) ==
    LET node == ns[fully[i0 + 1]]
    IN IF ~node.leaf
       THEN BitOr(BitOr(Offs(fully, ns, i0), IF ns[node.child0].leaf THEN 128 ELSE 0),
                  IF ns[node.child1].leaf THEN 64 ELSE 0)
       ELSE node.symbol

\* the tree size byte: len(self.leaves) - 1 + (len(self.leaves) % 1)
TreeSizeByte(ns) == LeafCount(ns) - 1 + (LeafCount(ns) % 1)

\* The word packed from the bits bs[a..b], the first at bit 31, is kept as the
\* four bytes to_bytes(4, "little") writes (it can exceed TLC's integers).
\* Bits e..7 of byte k of the word, where bit position 8 * k + e holds the bit
\* bs[a + 31 - (8 * k + e)], or 0 past b:
RECURSIVE WordByteFrom(_, _, _, _, _)
WordByteFrom(bs, a, b, k, e) ==
    IF e > 7 THEN 0
    ELSE (IF a + (WORD_BITS - 1) - (8 * k + e) <= b
             /\ bs[a + (WORD_BITS - 1) - (8 * k + e)] = "1"
          THEN Pow2(e) ELSE 0) + WordByteFrom(bs, a, b, k, e + 1)

WordBytes(bs, a, b) == [k \in 1..4 |-> WordByteFrom(bs, a, b, k - 1, 0)]

\* the words written for self.bits: full words, then the last partial one
BitWords(bs) ==
    Flatten([w \in 1..((Len(bs) + WORD_BITS - 1) \div WORD_BITS) |->
                WordBytes(bs, WORD_BITS * (w - 1) + 1,
                          IF WORD_BITS * w < Len(bs) THEN WORD_BITS * w ELSE Len(bs))])

HuffHeader(inl) == BitOr(BitOr(symbolsize, ShiftLeft(2, 4)), ShiftLeft(inl, 8))

\* BIOS_Huffman.output. When an assertion fails at a node, the header, the tree
\* size byte and the bytes of the nodes before it have been written.
HuffOutput ==
    /\ mode \in {"huffman", "huffman4"} /\ pc = "compressed"
    /\ \E fully \in {Fully(nodes, root)} :
       \E bad \in {{k \in 0..(Len(fully) - 1) : ~NodeAsserts(fully, nodes, k)}} :
       \E head \in {f \o ToBytes(HuffHeader(Len(inb)), 4) \o ToBytes(TreeSizeByte(nodes), 1)} :
          IF bad # {}
          THEN /\ f' = head \o [k \in 1..Min(bad) |-> NodeByte(fully, nodes, k - 1)]
               /\ bitstart' = bitstart
               /\ pc' = "failed"
          ELSE \E table \in {head \o [k \in 1..Len(fully) |-> NodeByte(fully, nodes, k - 1)]
                             \o (IF (Len(fully) + 1) % 4 = 2 THEN ToBytes(0, 2) ELSE <<>>)} :
                  /\ f' = table \o BitWords(bits)
                  /\ bitstart' = Len(table)
                  /\ pc' = "done"
    /\ UNCHANGED <<mode, vram, src, inb, i, buffer, blocks, nodes, root, bits>>

----------------------------------------------------------------------------
(* main                                                                    *)

\* "turn list of bytes into list of nibbles"
Nibbles(bytes) ==
    [k \in 1..(2 * Len(bytes)) |->
        IF k % 2 = 1 THEN BitAnd(bytes[(k + 1) \div 2], 15)
        ELSE ShiftRight(bytes[k \div 2], 4)]

\* the state once main has padded the input raw and built the encoder object
Start(m, v, raw) ==
    /\ mode = m
    /\ vram = v
    /\ src = Pad(raw)
    /\ inb = IF m = "huffman4" THEN Nibbles(Pad(raw)) ELSE Pad(raw)
    /\ pc = "compress"
    /\ i = 0
    /\ buffer = <<>>
    /\ blocks = <<>>
    /\ nodes = <<>>
    /\ root = 0
    /\ bits = <<>>
    /\ f = <<>>
    /\ bitstart = 0

InitRLE == \E raw \in RLEInputs : Start("rle", FALSE, raw)

NextRLE == RLEStep \/ RLEFinish \/ RLEOutput

SpecRLE == InitRLE /\ [][NextRLE]_vars

InitLZ77 == \E raw \in LZInputs, v \in BOOLEAN : Start("lz77", v, raw)

NextLZ77 == LZStep \/ LZOutput

SpecLZ77 == InitLZ77 /\ [][NextLZ77]_vars

InitHuffman ==
    \E raw \in HuffInputs, m \in {"huffman", "huffman4"} : Start(m, FALSE, raw)

NextHuffman == HuffCompress \/ HuffOutput

SpecHuffman == InitHuffman /\ [][NextHuffman]_vars

\* every method, on the inputs enumerated in full
Init == InitRLE \/ InitLZ77 \/ InitHuffman

Next == RLEStep \/ RLEFinish \/ RLEOutput \/ LZStep \/ LZOutput \/ HuffCompress \/ HuffOutput

Spec == Init /\ [][Next]_vars

InitLZ77Long ==
    \E raw \in LZInputs \cup LZWindowInputs, v \in BOOLEAN : Start("lz77", v, raw)

SpecLZ77Long == InitLZ77Long /\ [][NextLZ77]_vars

----------------------------------------------------------------------------
(* Claims about BIOS_RLE.                                                  *)

\* what a decoder writes for one block: length copies of byte, or the data
RLEExpandBlock(b) == IF b.type = "RLEBlock" THEN Run(b.byte, b.length) ELSE b.data

RLEExpand(bl) == Flatten([k \in 1..Len(bl) |-> RLEExpandBlock(bl[k])])

\* C1: RLE round trip. The expansions of self.blocks, concatenated in list
\* order, are exactly the input: while compress runs, the blocks followed by
\* the pending buffer are the bytes before the cursor; once compress has
\* returned, the cursor is at len(b) and the blocks expand to b.
C1_RLERoundTrip ==
    mode = "rle" =>
        /\ pc = "compress" => RLEExpand(blocks) \o buffer = SubSeq(inb, 1, i)
        /\ pc \in {"compressed", "done"} =>
              /\ i = Len(inb)
              /\ buffer = <<>>
              /\ RLEExpand(blocks) = inb

\* compress has returned with a raw block cut at 128 bytes, the rest of the
\* buffer flushed before a run, and that run, longer than 130, split in two
C1_Witness ==
    /\ mode = "rle" /\ pc = "compressed"
    /\ \E k \in 1..(Len(blocks) - 3) :
          /\ blocks[k].type = "RawBlock" /\ Len(blocks[k].data) = RAW_FLUSH_AT
          /\ blocks[k + 1].type = "RawBlock"
          /\ blocks[k + 2].type = "RLEBlock" /\ blocks[k + 2].length = RLE_ASSERT_MAX
          /\ blocks[k + 3].type = "RLEBlock" /\ blocks[k + 3].byte = blocks[k + 2].byte

\* C4: RLE block bounds. No constructor assertion fails in compress: every run
\* block has 3 <= length <= 130, every raw block 1 <= len(data) <= 128, and
\* between two passes of the loop the pending buffer holds fewer than 128 bytes.
C4_RLEBlockBounds ==
    mode = "rle" =>
        /\ pc # "failed"
        /\ Len(buffer) < 128
        /\ \A k \in 1..Len(blocks) :
              IF blocks[k].type = "RLEBlock"
              THEN 3 <= blocks[k].length /\ blocks[k].length <= 130
              ELSE 1 <= Len(blocks[k].data) /\ Len(blocks[k].data) <= 128

\* compress has returned with blocks at each end of both ranges
C4_Witness ==
    /\ mode = "rle" /\ pc = "compressed"
    /\ \E k \in 1..Len(blocks) : blocks[k].type = "RLEBlock" /\ blocks[k].length = 130
    /\ \E k \in 1..Len(blocks) : blocks[k].type = "RLEBlock" /\ blocks[k].length = 3
    /\ \E k \in 1..Len(blocks) : blocks[k].type = "RawBlock" /\ Len(blocks[k].data) = 128
    /\ \E k \in 1..Len(blocks) : blocks[k].type = "RawBlock" /\ Len(blocks[k].data) = 1

----------------------------------------------------------------------------
(* Claims about BIOS_LZ77.                                                 *)

LZBlockLen(b) == IF b.type = "BackReferenceBlock" THEN b.length ELSE 1

\* how many bytes the blocks bl[a..b] expand to
RECURSIVE LZOutLen(_, _, _)
LZOutLen(bl, a, b) ==
    IF a > b THEN 0
    ELSE IF a = b THEN LZBlockLen(bl[a])
    ELSE LZOutLen(bl, a, (a + b) \div 2) + LZOutLen(bl, (a + b) \div 2 + 1, b)

\* a decoder copying n bytes one at a time, each from disp + 1 behind the cursor
RECURSIVE LZCopy(_, _, _)
LZCopy(out, disp, n) ==
    IF Len(out) < 0 \/ n = 0 THEN out ELSE LZCopy(Append(out, out[Len(out) - disp]), disp, n - 1)

LZDecodeBlock(out, b) ==
    IF b.type = "BackReferenceBlock" THEN LZCopy(out, b.disp, b.length)
    ELSE Append(out, b.data)

\* the decoder's output after out, for the blocks bl[a..b] in order
RECURSIVE LZDecode(_, _, _, _)
LZDecode(out, bl, a, b) ==
    IF Len(out) < 0 \/ a > b THEN out
    ELSE IF a = b THEN LZDecodeBlock(out, bl[a])
    ELSE LZDecode(LZDecode(out, bl, a, (a + b) \div 2), bl, (a + b) \div 2 + 1, b)

\* no back-reference reads before the start of the output
LZInBounds(bl) ==
    \A k \in 1..Len(bl) :
        bl[k].type = "BackReferenceBlock" => bl[k].disp + 1 <= LZOutLen(bl, 1, k - 1)

\* C2: LZ77 round trip, with vram or without. Every back-reference emitted at
\* output position p has disp + 1 <= p, and decoding the blocks in order gives
\* the bytes before the cursor while compress runs and the whole input once it
\* has returned.
C2_LZ77RoundTrip ==
    mode = "lz77" =>
        /\ LZInBounds(blocks)
        /\ LZDecode(<<>>, blocks, 1, Len(blocks)) = SubSeq(inb, 1, i)
        /\ pc \in {"compressed", "done"} => i = Len(inb)

\* compress has returned with raw blocks and a back-reference that overlaps
\* the bytes it writes
C2_Witness ==
    /\ mode = "lz77" /\ pc = "compressed"
    /\ \E k \in 1..Len(blocks) : blocks[k].type = "RawBlock"
    /\ \E k \in 1..Len(blocks) :
          /\ blocks[k].type = "BackReferenceBlock"
          /\ 0 < blocks[k].disp
          /\ blocks[k].disp + 1 < blocks[k].length

\* C5: LZ77 block bounds. The assertions of BackReferenceBlock.output never
\* fail: every back-reference has 0 <= disp <= 4095 and 3 <= length <= 18, and
\* with vram none has disp = 0.
C5_LZ77BlockBounds ==
    mode = "lz77" =>
        /\ pc # "failed"
        /\ \A k \in 1..Len(blocks) :
              blocks[k].type = "BackReferenceBlock" =>
                  /\ 0 <= blocks[k].disp /\ blocks[k].disp <= 4095
                  /\ 3 <= blocks[k].length /\ blocks[k].length <= 18
                  /\ vram => blocks[k].disp # 0

\* output has returned, with vram, for an input that needed the largest
\* displacement, the longest match and a shortest one
C5_Witness ==
    /\ mode = "lz77" /\ pc = "done" /\ vram
    /\ \E k \in 1..Len(blocks) :
          blocks[k].type = "BackReferenceBlock" /\ blocks[k].disp = 4095
    /\ \E k \in 1..Len(blocks) :
          blocks[k].type = "BackReferenceBlock" /\ blocks[k].length = 18
    /\ \E k \in 1..Len(blocks) :
          blocks[k].type = "BackReferenceBlock" /\ blocks[k].length = 3

\* M(d) at cursor p: the longest common prefix of input[p-d-1 ...] and
\* input[p ...], capped at 18 and at the end of the input; 0 if p-d-1 < 0
LZM(s, p, d) ==
    IF p - d - 1 < 0 THEN 0
    ELSE Max({n \in 0..18 :
                /\ p + n <= Len(s)
                /\ \A j \in 0..(n - 1) : s[p - d + j] = s[p + j + 1]})

LZDisps(v) == (IF v THEN 1 ELSE 0)..4095

\* C10: the greedy choice of LZ77. The cursor is where the blocks emitted so
\* far end. The last block was emitted at the cursor position p before it: if
\* the largest M(d) there is 3 or more, it is a back-reference of that length
\* with the smallest d that attains it; if not, it is a raw block holding
\* input[p].
C10_LZ77Greedy ==
    (mode = "lz77" /\ blocks # <<>>) =>
        LET last == blocks[Len(blocks)]
            p == LZOutLen(blocks, 1, Len(blocks) - 1)
        IN /\ i = p + LZBlockLen(last)
           /\ \E ms \in {[d \in LZDisps(vram) |-> LZM(inb, p, d)]} :
              \E best \in {Max({ms[d] : d \in LZDisps(vram)})} :
                 IF best >= 3
                 THEN /\ last.type = "BackReferenceBlock"
                      /\ last.length = best
                      /\ last.disp = Min({d \in 0..p : d \in LZDisps(vram) /\ ms[d] = best})
                 ELSE /\ last.type = "RawBlock"
                      /\ last.data = inb[p + 1]

\* the last block is a back-reference chosen among several displacements that
\* attain the largest M(d), after a raw block emitted with a match of 2 at hand
C10_Witness ==
    /\ mode = "lz77" /\ Len(blocks) >= 2
    /\ LET last == blocks[Len(blocks)]
           p == LZOutLen(blocks, 1, Len(blocks) - 1)
       IN /\ last.type = "BackReferenceBlock"
          /\ \E d \in 0..p : d \in LZDisps(vram) /\ d # last.disp
                             /\ LZM(inb, p, d) = last.length
    /\ \E k \in 1..(Len(blocks) - 1) :
          /\ blocks[k].type = "RawBlock"
          /\ \E d \in LZDisps(vram) : LZM(inb, LZOutLen(blocks, 1, k - 1), d) = 2

----------------------------------------------------------------------------
(* Claims about BIOS_Huffman and about output.                             *)

Huffman == mode \in {"huffman", "huffman4"}

\* a decoder's step on one bit: from the node it is at to child0 (bit 0) or
\* child1 (bit 1); at a leaf it emits the symbol and goes back to the root
HuffDecodeBit(ns, rt, st, bit) ==
    IF ns[st.at].leaf THEN st
    ELSE LET n == IF bit = "0" THEN ns[st.at].child0 ELSE ns[st.at].child1
         IN IF ns[n].leaf
            THEN [at |-> rt, out |-> Append(st.out, ns[n].symbol)]
            ELSE [at |-> n, out |-> st.out]

RECURSIVE HuffDecodeRange(_, _, _, _, _, _)
HuffDecodeRange(ns, rt, st, bs, a, b) ==
    IF st.at < 0 \/ a > b THEN st
    ELSE IF a = b THEN HuffDecodeBit(ns, rt, st, bs[a])
    ELSE HuffDecodeRange(ns, rt, HuffDecodeRange(ns, rt, st, bs, a, (a + b) \div 2),
                         bs, (a + b) \div 2 + 1, b)

HuffDecode(ns, rt, bs) == HuffDecodeRange(ns, rt, [at |-> rt, out |-> <<>>], bs, 1, Len(bs))

\* C3: Huffman round trip. Once compress has returned, walking the tree from
\* the root along self.bits, emitting a symbol at every leaf reached, gives
\* exactly the symbols of the input, and the walk ends with the last bit, back
\* at the root. (Fails on the code: an input with one distinct symbol gets a
\* tree that is a single leaf and no bits at all.)
C3_HuffmanRoundTrip ==
    (Huffman /\ pc \in {"compressed", "done", "failed"}) =>
        /\ HuffDecode(nodes, root, bits).out = inb
        /\ HuffDecode(nodes, root, bits).at = root

\* what does hold of the code: the round trip of every input with two distinct
\* symbols or more
HuffmanRoundTripSeveralSymbols ==
    (Huffman /\ pc \in {"compressed", "done", "failed"} /\ LeafCount(nodes) >= 2) =>
        /\ HuffDecode(nodes, root, bits).out = inb
        /\ HuffDecode(nodes, root, bits).at = root

HeaderSizeField == f[2] + 256 * f[3] + 65536 * f[4]

\* C6: the header. Once output has written it, bits 8-31 are the decompressed
\* size in bytes (the length of the padded input), bits 4-7 the type tag
\* (1 LZ77, 2 Huffman, 3 RLE) and bits 0-3 are 0 for RLE and LZ77, the symbol
\* width for Huffman. (Fails on the code: with 4-bit symbols the size field
\* holds the number of nibbles.)
C6_HeaderSizeField ==
    Len(f) >= 4 =>
        /\ HeaderSizeField = Len(src)
        /\ f[1] \div 16 = (CASE mode = "lz77" -> 1 [] Huffman -> 2 [] mode = "rle" -> 3)
        /\ f[1] % 16 = (CASE mode = "huffman" -> 8 [] mode = "huffman4" -> 4 [] OTHER -> 0)

\* what does hold of the code: the size field is len(self.inb), the tag and the
\* low bits are as claimed
HeaderHoldsInputLength ==
    Len(f) >= 4 =>
        /\ HeaderSizeField = Len(inb)
        /\ f[1] \div 16 = (CASE mode = "lz77" -> 1 [] Huffman -> 2 [] mode = "rle" -> 3)
        /\ f[1] % 16 = (CASE mode = "huffman" -> 8 [] mode = "huffman4" -> 4 [] OTHER -> 0)

\* the children of the inner node at index i0 of the table are adjacent and
\* the value halved for its offset is even
TableNodeShape(fully, ns, i0) ==
    LET child0pos == IndexIn(fully, ns[fully[i0 + 1]].child0)
        child1pos == IndexIn(fully, ns[fully[i0 + 1]].child1)
    IN /\ child0pos + 1 = child1pos
       /\ (child1pos - ((i0 + 1) - ((i0 + 1) % 2)) - 2) % 2 = 0

\* C7: the offsets of the tree table always fit. For the tree of any input, in
\* the breadth-first table every inner node has its children at adjacent
\* indices, child1pos - ((i+1) & ~1) - 2 is even and 0 <= offs <= 63, so that
\* no assertion of output fails. (Fails on the code: the tree of 256 symbols
\* of equal count is too wide.)
C7_HuffmanOffsetsFit ==
    (Huffman /\ pc \in {"compressed", "done", "failed"}) =>
        /\ pc # "failed"
        /\ \E fully \in {Fully(nodes, root)} :
              \A i0 \in 0..(Len(fully) - 1) :
                  ~nodes[fully[i0 + 1]].leaf =>
                      /\ TableNodeShape(fully, nodes, i0)
                      /\ 0 <= Offs(fully, nodes, i0)
                      /\ Offs(fully, nodes, i0) <= 63

\* what does hold of the code: adjacent children, an even value, offs >= 0
HuffmanTableShape ==
    (Huffman /\ pc \in {"compressed", "done", "failed"}) =>
        \E fully \in {Fully(nodes, root)} :
            \A i0 \in 0..(Len(fully) - 1) :
                ~nodes[fully[i0 + 1]].leaf =>
                    /\ TableNodeShape(fully, nodes, i0)
                    /\ 0 <= Offs(fully, nodes, i0)

\* C8: no partial output on failure. When compress or output has stopped at a
\* failed assertion, nothing has been written to the file. (Fails on the
\* code: output writes the header before it checks anything.)
C8_NoPartialOutput == pc = "failed" => f = <<>>

\* C9: the tree size byte locates the bitstream. The byte at offset 4 is
\* N/2 - 1 for the N bytes from it to the first bitstream word, so the
\* bitstream starts at offset 4 + 2 * (byte + 1), a multiple of 4; with an odd
\* number of leaves (and two padding bytes) the byte is the number of leaves.
\* (Fails on the code: the byte is always the number of leaves minus one.)
C9_TreeSizeLocatesBitstream ==
    (Huffman /\ pc = "done") =>
        /\ 2 * (f[5] + 1) = bitstart - 4
        /\ bitstart % 4 = 0
        /\ LeafCount(nodes) % 2 = 1 => f[5] = LeafCount(nodes)

\* what does hold of the code: the bitstream starts at a multiple of 4, and
\* the byte locates it when the number of leaves is even
TreeSizeWithEvenLeaves ==
    (Huffman /\ pc = "done") =>
        /\ bitstart % 4 = 0
        /\ f[5] = LeafCount(nodes) - 1
        /\ LeafCount(nodes) % 2 = 0 => 2 * (f[5] + 1) = bitstart - 4

====
